---- MODULE Spec2Model ----
(***************************************************************************)
(* Model of frontend/src/components/HMSErrorModal.tsx: the HMS error       *)
(* modal of the printer dashboard.                                         *)
(*                                                                         *)
(* A JavaScript string the code inspects character by character is a       *)
(* sequence of one-character strings; Str turns it into a TLA+ string      *)
(* where the code only concatenates it or uses it as a key.                *)
(* A JavaScript number is an integer; the result of parseInt is <<>> for   *)
(* NaN and <<v>> for the number v.                                         *)
(***************************************************************************)
EXTENDS Integers, Sequences, FiniteSets, TLC

VARIABLES
    args,       \* the arguments of the pure function under test
    ret,        \* its result, NotCalled before the call
    mounted,    \* the modal is in the committed tree
    props,      \* the props of the last committed render
    view,       \* what the last committed render returned
    pending,    \* passive-effect work scheduled by the last commit
    installed,  \* onClose captured by the handleKeyDown of the live effect
    listeners,  \* the window's keydown listeners, each its captured onClose
    lastKey,    \* key of the last keydown event dispatched to the window
    calls       \* the onClose callbacks that event invoked, in order

pureVars == <<args, ret>>
modalVars == <<mounted, props, view, pending, installed, listeners, lastKey, calls>>
vars == <<args, ret, mounted, props, view, pending, installed, listeners, lastKey, calls>>

----------------------------------------------------------------------------
(* Bounds *)

MaxNameLen == 3
MaxCodeLen == 3
MaxErrors == 2
NumCallbacks == 2
MaxSeverity == 6

----------------------------------------------------------------------------
(* Strings *)

RECURSIVE Str(_)
Str(s) == IF s = <<>> THEN "" ELSE Head(s) \o Str(Tail(s))

StringsUpTo(A, n) == UNION {[1..k -> A] : k \in 0..n}

LowerLetters == <<"a","b","c","d","e","f","g","h","i","j","k","l","m",
                  "n","o","p","q","r","s","t","u","v","w","x","y","z">>
UpperLetters == <<"A","B","C","D","E","F","G","H","I","J","K","L","M",
                  "N","O","P","Q","R","S","T","U","V","W","X","Y","Z">>
Digits36 == <<"0","1","2","3","4","5","6","7","8","9">> \o LowerLetters

IndexOf(c, seq) ==
    IF \E i \in 1..Len(seq) : seq[i] = c
    THEN CHOOSE i \in 1..Len(seq) : seq[i] = c
    ELSE 0

\* The case mappings of the ASCII letters
UpperOf == [c \in {LowerLetters[i] : i \in 1..26} |-> UpperLetters[IndexOf(c, LowerLetters)]]
LowerOf == [c \in {UpperLetters[i] : i \in 1..26} |-> LowerLetters[IndexOf(c, UpperLetters)]]

toUpperCaseChar(c) == IF c \in DOMAIN UpperOf THEN UpperOf[c] ELSE c
toLowerCaseChar(c) == IF c \in DOMAIN LowerOf THEN LowerOf[c] ELSE c

toUpperCase(s) == [i \in 1..Len(s) |-> toUpperCaseChar(s[i])]
toLowerCase(s) == [i \in 1..Len(s) |-> toLowerCaseChar(s[i])]

\* String.prototype.includes
includes(s, sub) ==
    \E i \in 0..(Len(s) - Len(sub)) : SubSeq(s, i + 1, i + Len(sub)) = sub

\* String.prototype.padStart with a one-character filler
RECURSIVE padStart(_, _, _)
padStart(s, n, c) == IF Len(s) >= n THEN s ELSE padStart(<<c>> \o s, n, c)

\* String.prototype.replace with a string pattern: the first occurrence only
replaceFirst(s, pat, by) ==
    IF includes(s, pat)
    THEN LET i == CHOOSE k \in 0..(Len(s) - Len(pat)) :
                    /\ SubSeq(s, k + 1, k + Len(pat)) = pat
                    /\ \A j \in 0..(k - 1) : SubSeq(s, j + 1, j + Len(pat)) # pat
         IN SubSeq(s, 1, i) \o by \o SubSeq(s, i + Len(pat) + 1, Len(s))
    ELSE s

\* String.prototype.replace with a global one-character pattern
replaceAllChar(s, c, by) == [i \in 1..Len(s) |-> IF s[i] = c THEN by ELSE s[i]]

----------------------------------------------------------------------------
(* Numbers *)

\* Number.prototype.toString(16): lowercase digits, a minus sign when negative
RECURSIVE toString16(_)
toString16(n) ==
    IF n < 0
    THEN LET r == (16 - (n % 16)) % 16      \* last digit of -n
             q == 0 - ((n + r) \div 16)      \* -n without its last digit
         IN <<"-">> \o (IF q = 0 THEN <<>> ELSE toString16(q)) \o <<Digits36[r + 1]>>
    ELSE IF n < 16 THEN <<Digits36[n + 1]>>
    ELSE toString16(n \div 16) \o <<Digits36[(n % 16) + 1]>>

\* A number is held as two halves, hi * 65536 + lo with lo in 0..65535, so
\* that every unsigned 32-bit value (and what parseInt reads from a short
\* string) is representable with TLC's 32-bit integers
Num(hi, lo) == [hi |-> hi, lo |-> lo]

Zero == Num(0, 0)

\* x * m + d, for 0 <= d < m <= 36
NumMulAdd(x, m, d) ==
    LET t == x.lo * m + d IN Num(x.hi * m + (t \div 65536), t % 65536)

\* -x
NumNeg(x) == IF x.lo = 0 THEN Num(-x.hi, 0) ELSE Num(-x.hi - 1, 65536 - x.lo)

\* ToInt32, applied by >> and & to their left operand: the value modulo
\* 2^32, read as a signed 32-bit integer
ToInt32(x) == ((((x.hi + 32768) % 65536) - 32768) * 65536) + x.lo

RECURSIVE Pow2(_)
Pow2(n) == IF n = 0 THEN 1 ELSE 2 * Pow2(n - 1)

\* x >> n: sign-propagating shift of the 32-bit value
ShiftRight(x, n) == ToInt32(x) \div Pow2(n)

\* Variant: the mask left out
And255NoMask(i) == i

\* i & 0xFF for a 32-bit integer i: its low eight bits
And255(i) == i % 256

\* digit value of a character in parseInt, 36 when it is no digit
DigitValue(c) ==
    LET i == IndexOf(toLowerCaseChar(c), Digits36) IN IF i = 0 THEN 36 ELSE i - 1

RECURSIVE StripLeadingSpace(_)
StripLeadingSpace(s) ==
    IF s # <<>> /\ Head(s) = " " THEN StripLeadingSpace(Tail(s)) ELSE s

RECURSIVE DigitPrefix(_, _)
DigitPrefix(s, radix) ==
    IF s # <<>> /\ DigitValue(Head(s)) < radix
    THEN <<Head(s)>> \o DigitPrefix(Tail(s), radix)
    ELSE <<>>

RECURSIVE DigitsValue(_, _)
DigitsValue(ds, radix) ==
    IF ds = <<>> THEN Zero
    ELSE NumMulAdd(DigitsValue(SubSeq(ds, 1, Len(ds) - 1), radix), radix,
                   DigitValue(ds[Len(ds)]))

\* Variant: the radix argument ignored, decimal digits read
parseIntDecimal(s, radix) ==
    LET t == StripLeadingSpace(s)
        neg == t # <<>> /\ Head(t) = "-"
        u == IF t # <<>> /\ Head(t) \in {"-", "+"} THEN Tail(t) ELSE t
        ds == DigitPrefix(u, 10)
    IN IF ds = <<>> THEN <<>>
       ELSE <<IF neg THEN NumNeg(DigitsValue(ds, 10)) ELSE DigitsValue(ds, 10)>>

\* parseInt(s, radix): <<>> is NaN, <<x>> the number x
parseInt(s, radix) ==
    LET t == StripLeadingSpace(s)
        neg == t # <<>> /\ Head(t) = "-"
        u == IF t # <<>> /\ Head(t) \in {"-", "+"} THEN Tail(t) ELSE t
        w == IF radix = 16 /\ Len(u) >= 2 /\ u[1] = "0" /\ u[2] \in {"x", "X"}
             THEN SubSeq(u, 3, Len(u)) ELSE u
        ds == DigitPrefix(w, radix)
    IN IF ds = <<>> THEN <<>>
       ELSE <<IF neg THEN NumNeg(DigitsValue(ds, radix)) ELSE DigitsValue(ds, radix)>>

\* n || 0 for a parseInt result: NaN, 0 and -0 are falsy
OrZero(n) == IF n = <<>> \/ n = <<Zero>> THEN Zero ELSE n[1]

----------------------------------------------------------------------------
(* The module's table and pure functions *)

HMS_DESCRIPTIONS ==
    "0700_5500_0002_0001" :> "A binding error occurred between AMS and the extruder. Please perform AMS initialization again." @@
    "0500_0300_0002_000E" :> "Some modules are incompatible with the printer firmware version. Please update firmware." @@
    "0300_0100_0002_0054" :> "The heatbed temperature is abnormal. The sensor may be disconnected or damaged." @@
    "0500_0100_0005_0005" :> "Motor driver overheated. Let the printer cool down." @@
    "0500_0100_0005_0006" :> "Motor driver communication error." @@
    "0700_0100_0007_0001" :> "AMS communication error." @@
    "0700_0100_0007_0002" :> "AMS filament runout." @@
    "0700_0100_0007_0003" :> "AMS filament not detected." @@
    "0C00_0100_000C_0003" :> "First layer inspection failed." @@
    "0C00_0100_000C_0004" :> "Nozzle clog detected." @@
    "0C00_0100_000C_8000" :> "Foreign object detected on print bed." @@
    "0500_0100_0005_0000" :> "Motor X axis lost steps." @@
    "0500_0100_0005_0001" :> "Motor Y axis lost steps." @@
    "0500_0100_0005_0002" :> "Motor Z axis lost steps."

UnknownError == "Unknown error. Click the link below for details."

\* Variant: the default branch falling to the first case
getSeverityInfoNoDefault(severity) ==
    CASE severity = 1 -> [label |-> "Fatal", color |-> "text-red-500", bgColor |-> "bg-red-500/20", Icon |-> "AlertTriangle"]
      [] severity = 2 -> [label |-> "Serious", color |-> "text-red-400", bgColor |-> "bg-red-500/15", Icon |-> "AlertTriangle"]
      [] severity = 3 -> [label |-> "Warning", color |-> "text-orange-400", bgColor |-> "bg-orange-500/20", Icon |-> "AlertCircle"]
      [] severity = 4 -> [label |-> "Info", color |-> "text-blue-400", bgColor |-> "bg-blue-500/20", Icon |-> "Info"]
      [] OTHER -> [label |-> "Fatal", color |-> "text-red-500", bgColor |-> "bg-red-500/20", Icon |-> "AlertTriangle"]

getSeverityInfo(severity) ==
    CASE severity = 1 -> [label |-> "Fatal", color |-> "text-red-500", bgColor |-> "bg-red-500/20", Icon |-> "AlertTriangle"]
      [] severity = 2 -> [label |-> "Serious", color |-> "text-red-400", bgColor |-> "bg-red-500/15", Icon |-> "AlertTriangle"]
      [] severity = 3 -> [label |-> "Warning", color |-> "text-orange-400", bgColor |-> "bg-orange-500/20", Icon |-> "AlertCircle"]
      [] severity = 4 -> [label |-> "Info", color |-> "text-blue-400", bgColor |-> "bg-blue-500/20", Icon |-> "Info"]
      [] OTHER -> [label |-> "Info", color |-> "text-blue-400", bgColor |-> "bg-blue-500/20", Icon |-> "Info"]

\* Variant: no padding to two digits
Hex2NoPad(b) == toUpperCase(toString16(b))

\* b.toString(16).padStart(2, '0').toUpperCase()
Hex2(b) == toUpperCase(padStart(toString16(b), 2, "0"))

\* Variant: the third byte of attr taken with the shift of the second
getFullHMSCodeRepeatedShift(attr, code) ==
    Hex2(And255(ShiftRight(attr, 24))) \o Hex2(And255(ShiftRight(attr, 16))) \o <<"_">> \o
    Hex2(And255(ShiftRight(attr, 16))) \o Hex2(And255(ToInt32(attr))) \o <<"_">> \o
    Hex2(And255(ShiftRight(code, 24))) \o Hex2(And255(ShiftRight(code, 16))) \o <<"_">> \o
    Hex2(And255(ShiftRight(code, 8))) \o Hex2(And255(ToInt32(code)))

getFullHMSCode(attr, code) ==
    LET a1 == Hex2(And255(ShiftRight(attr, 24)))
        a2 == Hex2(And255(ShiftRight(attr, 16)))
        a3 == Hex2(And255(ShiftRight(attr, 8)))
        a4 == Hex2(And255(ToInt32(attr)))
        c1 == Hex2(And255(ShiftRight(code, 24)))
        c2 == Hex2(And255(ShiftRight(code, 16)))
        c3 == Hex2(And255(ShiftRight(code, 8)))
        c4 == Hex2(And255(ToInt32(code)))
    IN a1 \o a2 \o <<"_">> \o a3 \o a4 \o <<"_">> \o c1 \o c2 \o <<"_">> \o c3 \o c4

\* Variant: the name compared without lowering its case
getHMSWikiUrlCaseSensitive(attr, code, printerName) ==
    LET fullCode == getFullHMSCode(attr, code)
        isH2 == includes(printerName, <<"h", "2">>)
        basePath == IF isH2 THEN "h2" ELSE "x1"
    IN "https://wiki.bambulab.com/en/" \o basePath \o "/troubleshooting/hmscode/" \o Str(fullCode)

getHMSWikiUrl(attr, code, printerName) ==
    LET fullCode == getFullHMSCode(attr, code)
        isH2 == includes(toLowerCase(printerName), <<"h", "2">>)
        basePath == IF isH2 THEN "h2" ELSE "x1"
    IN "https://wiki.bambulab.com/en/" \o basePath \o "/troubleshooting/hmscode/" \o Str(fullCode)

----------------------------------------------------------------------------
(* The body of errors.map: one rendered entry per error *)

\* Variant: no fallback message
DescribeNoFallback(fullHMSCode) ==
    LET key == Str(fullHMSCode)
    IN IF key \in DOMAIN HMS_DESCRIPTIONS THEN HMS_DESCRIPTIONS[key] ELSE "undefined"

\* HMS_DESCRIPTIONS[fullHMSCode] || 'Unknown error. ...'
Describe(fullHMSCode) ==
    LET key == Str(fullHMSCode)
    IN IF key \in DOMAIN HMS_DESCRIPTIONS /\ HMS_DESCRIPTIONS[key] # ""
       THEN HMS_DESCRIPTIONS[key]
       ELSE UnknownError

\* parseInt(error.code.replace('0x', ''), 16) || 0
CodeNum(code) == OrZero(parseInt(replaceFirst(code, <<"0", "x">>, <<>>), 16))

\* `HMS_${fullHMSCode.replace(/_/g, '-')}`
DisplayCode(fullHMSCode) == "HMS_" \o Str(replaceAllChar(fullHMSCode, "_", "-"))

RenderEntry(error, index, printerName) ==
    LET info == getSeverityInfo(error.severity)
        codeNum == CodeNum(error.code)
        fullHMSCode == getFullHMSCode(error.attr, codeNum)
        description == Describe(fullHMSCode)
        wikiUrl == getHMSWikiUrl(error.attr, codeNum, printerName)
        displayCode == DisplayCode(fullHMSCode)
    IN [key |-> Str(error.code) \o "-" \o ToString(index),
        bgColor |-> info.bgColor,
        color |-> info.color,
        Icon |-> info.Icon,
        displayCode |-> displayCode,
        label |-> info.label,
        description |-> description,
        href |-> wikiUrl]

\* Variant: the entries in reverse order
HMSErrorModalReversed(printerName, errors) ==
    [title |-> "HMS Errors - " \o Str(printerName),
     placeholder |-> IF Len(errors) = 0 THEN "No HMS errors" ELSE "",
     entries |-> [i \in 1..Len(errors) |->
                    RenderEntry(errors[Len(errors) + 1 - i], i - 1, printerName)]]

\* The JSX the component returns: header title and content
HMSErrorModal(printerName, errors) ==
    [title |-> "HMS Errors - " \o Str(printerName),
     placeholder |-> IF Len(errors) = 0 THEN "No HMS errors" ELSE "",
     entries |-> [i \in 1..Len(errors) |-> RenderEntry(errors[i], i - 1, printerName)]]

----------------------------------------------------------------------------
(* The effect of lines 80-86 and the window's keydown dispatch *)

\* Variant: the key not compared
handleKeyDownAnyKey(onClose, key) == <<onClose>>

\* handleKeyDown, closed over onClose: the callbacks one event makes it call
handleKeyDown(onClose, key) == IF key = "Escape" THEN <<onClose>> ELSE <<>>

\* window.addEventListener('keydown', handleKeyDown)
addEventListener(ls, onClose) == Append(ls, onClose)

\* window.removeEventListener('keydown', handleKeyDown): the closure the
\* effect installed, which is the first one in the list that captured onClose
removeEventListener(ls, onClose) ==
    IF \E i \in 1..Len(ls) : ls[i] = onClose
    THEN LET i == CHOOSE k \in 1..Len(ls) :
                    ls[k] = onClose /\ \A j \in 1..(k - 1) : ls[j] # onClose
         IN SubSeq(ls, 1, i - 1) \o SubSeq(ls, i + 1, Len(ls))
    ELSE ls

\* The listeners once the scheduled passive effects have run: the cleanup of
\* the previous effect, then the setup of the new one
ListenersAfterEffects(work, ls, inst, onClose) ==
    CASE work = "mount" -> addEventListener(ls, onClose)
      [] work = "update" -> addEventListener(removeEventListener(ls, inst), onClose)
      [] work = "unmount" -> removeEventListener(ls, inst)
      [] OTHER -> ls

InstalledAfterEffects(work, inst, onClose) ==
    CASE work = "mount" -> onClose
      [] work = "update" -> onClose
      [] work = "unmount" -> 0
      [] OTHER -> inst

\* The window calls every registered listener, in registration order
RECURSIVE Dispatch(_, _)
Dispatch(ls, key) ==
    IF ls = <<>> THEN <<>> ELSE handleKeyDown(Head(ls), key) \o Dispatch(Tail(ls), key)

----------------------------------------------------------------------------
(* Inputs *)

\* Bytes with and without the top bit, below and above 16
ByteSamples == {0, 10, 128, 255}

\* Unsigned 32-bit numbers built from the sample bytes
Words ==
    {Num(b3 * 256 + b2, b1 * 256 + b0) : b3 \in ByteSamples, b2 \in ByteSamples,
                                         b1 \in ByteSamples, b0 \in ByteSamples}

\* 0x07005500, 0x0C000100, 0xFFFFFFFF; 0x00020001, 0x00000000
AttrSamples == {Num(1792, 21760), Num(3072, 256), Num(65535, 65535)}
CodeSamples == {Num(2, 1), Zero}

\* Numbers that differ from one another in a single byte
PairWords == {Zero, Num(0, 10), Num(0, 2560), Num(10, 0), Num(32768, 0)}

NameAlphabet == {"h", "H", "2", "X", "1"}
Names == StringsUpTo(NameAlphabet, MaxNameLen)

CodeAlphabet == {"0", "x", "1", "f", "A", "g", "-"}
CodeStrings ==
    StringsUpTo(CodeAlphabet, MaxCodeLen) \cup
    {<<"0","x","0","0","0","2","0","0","0","1">>,
     <<"0","x","0","0","0","2","0","0","0","2">>,
     <<"0","x","0","0","0","c","8","0","0","0">>,
     <<"0","x","F","F","F","F","F","F","F","F">>,
     <<"0","x","8","0","0","0","0","0","0","0">>,
     <<"0","X","1","f">>,
     <<" ","0","x","2","0">>,
     <<"z","z">>}

Severities == (0 - MaxSeverity)..MaxSeverity

Keys == {"Escape", "Enter", "escape"}
Callbacks == 1..NumCallbacks

\* The errors the parent passes to the modal
ErrorSamples ==
    {[attr |-> Num(1792, 21760), code |-> <<"0","x","0","0","0","2","0","0","0","1">>, severity |-> 2],
     [attr |-> Num(65535, 65535), code |-> <<"z","z">>, severity |-> 9]}
ErrorLists == StringsUpTo(ErrorSamples, MaxErrors)
ModalNames == {<<"X","1","C">>, <<"H","2","D">>}

PureArgs ==
    {[fn |-> "getFullHMSCode", attr |-> a, code |-> c] : a \in Words, c \in Words}
    \cup {[fn |-> "getHMSWikiUrl", attr |-> a, code |-> c, printerName |-> n] :
            a \in AttrSamples, c \in CodeSamples, n \in Names}
    \cup {[fn |-> "getSeverityInfo", severity |-> v] : v \in Severities}
    \cup {[fn |-> "twoErrors", attr |-> a, code |-> c, attr2 |-> a2, code2 |-> c2,
           printerName |-> <<"H","2","D">>] :
            a \in PairWords, c \in PairWords, a2 \in PairWords, c2 \in PairWords}
    \cup {[fn |-> "RenderEntry", error |-> [attr |-> a, code |-> c, severity |-> 1],
           printerName |-> <<"X","1","C">>] : a \in AttrSamples, c \in CodeStrings}

----------------------------------------------------------------------------
(* The pure functions, each applied to arguments drawn at the start *)

NoProps == [printerName |-> <<>>, errors |-> <<>>, onClose |-> 0]
NoView == [title |-> "", placeholder |-> "", entries |-> <<>>]

InitModal ==
    /\ mounted = FALSE
    /\ props = NoProps
    /\ view = NoView
    /\ pending = "none"
    /\ installed = 0
    /\ listeners = <<>>
    /\ lastKey = ""
    /\ calls = <<>>

InitPure ==
    /\ args \in PureArgs
    /\ ret = <<>>
    /\ InitModal

CallGetFullHMSCode ==
    /\ args.fn = "getFullHMSCode"
    /\ ret = <<>>
    /\ ret' = <<getFullHMSCode(args.attr, args.code)>>
    /\ UNCHANGED <<args, modalVars>>

CallGetHMSWikiUrl ==
    /\ args.fn = "getHMSWikiUrl"
    /\ ret = <<>>
    /\ ret' = <<getHMSWikiUrl(args.attr, args.code, args.printerName)>>
    /\ UNCHANGED <<args, modalVars>>

CallGetSeverityInfo ==
    /\ args.fn = "getSeverityInfo"
    /\ ret = <<>>
    /\ ret' = <<getSeverityInfo(args.severity)>>
    /\ UNCHANGED <<args, modalVars>>

CallRenderEntry ==
    /\ args.fn = "RenderEntry"
    /\ ret = <<>>
    /\ ret' = <<RenderEntry(args.error, 0, args.printerName)>>
    /\ UNCHANGED <<args, modalVars>>

\* Two errors rendered for the same printer: their keys and wiki URLs
CallTwoErrors ==
    /\ args.fn = "twoErrors"
    /\ ret = <<>>
    /\ ret' = <<[key1 |-> getFullHMSCode(args.attr, args.code),
                 key2 |-> getFullHMSCode(args.attr2, args.code2),
                 url1 |-> getHMSWikiUrl(args.attr, args.code, args.printerName),
                 url2 |-> getHMSWikiUrl(args.attr2, args.code2, args.printerName)]>>
    /\ UNCHANGED <<args, modalVars>>

NextPure ==
    \/ CallGetFullHMSCode
    \/ CallTwoErrors
    \/ CallGetHMSWikiUrl
    \/ CallGetSeverityInfo
    \/ CallRenderEntry

SpecPure == InitPure /\ [][NextPure]_vars

----------------------------------------------------------------------------
(* The mounted component.  React commits a render and runs the passive      *)
(* effects of that commit afterwards (at the latest before the next render):*)
(* on mount the effect's setup, on a render that changed onClose the        *)
(* previous cleanup and the new setup, on unmount the cleanup.  Keydown     *)
(* events can reach the window between a commit and its effects.            *)

\* Variant: an empty dependency list
DepsChangedNever(prevOnClose, nextOnClose) == FALSE

\* The effect's dependency list [onClose] changed between two renders
DepsChanged(prevOnClose, nextOnClose) == prevOnClose # nextOnClose

\* What the component returns for each props value the parent can pass,
\* tabulated once: rendering is a function of the props alone
Renderings ==
    {[printerName |-> n, errors |-> es, view |-> HMSErrorModal(n, es)] :
        n \in ModalNames, es \in ErrorLists}

Render(printerName, errors) ==
    (CHOOSE r \in Renderings : r.printerName = printerName /\ r.errors = errors).view

Init ==
    /\ args = [fn |-> "none"]
    /\ ret = <<>>
    /\ InitModal

\* First render of the component
Mount(printerName, errors, onClose) ==
    /\ ~mounted
    /\ mounted' = TRUE
    /\ props' = [printerName |-> printerName, errors |-> errors, onClose |-> onClose]
    /\ view' = Render(printerName, errors)
    /\ listeners' = ListenersAfterEffects(pending, listeners, installed, props.onClose)
    /\ installed' = InstalledAfterEffects(pending, installed, props.onClose)
    /\ pending' = "mount"
    /\ UNCHANGED <<lastKey, calls, pureVars>>

\* The parent renders the component again with new props
Rerender(printerName, errors, onClose) ==
    /\ mounted
    /\ props' = [printerName |-> printerName, errors |-> errors, onClose |-> onClose]
    /\ view' = Render(printerName, errors)
    /\ listeners' = ListenersAfterEffects(pending, listeners, installed, props.onClose)
    /\ installed' = InstalledAfterEffects(pending, installed, props.onClose)
    /\ pending' = IF DepsChanged(props.onClose, onClose) THEN "update" ELSE "none"
    /\ UNCHANGED <<mounted, lastKey, calls, pureVars>>

\* The parent removes the component
Unmount ==
    /\ mounted
    /\ mounted' = FALSE
    /\ props' = NoProps
    /\ view' = NoView
    /\ listeners' = ListenersAfterEffects(pending, listeners, installed, props.onClose)
    /\ installed' = InstalledAfterEffects(pending, installed, props.onClose)
    /\ pending' = "unmount"
    /\ UNCHANGED <<lastKey, calls, pureVars>>

\* React runs the passive effects of the last commit
FlushPassiveEffects ==
    /\ pending # "none"
    /\ listeners' = ListenersAfterEffects(pending, listeners, installed, props.onClose)
    /\ installed' = InstalledAfterEffects(pending, installed, props.onClose)
    /\ pending' = "none"
    /\ UNCHANGED <<mounted, props, view, lastKey, calls, pureVars>>

\* A keydown event reaches the window
KeyDown(key) ==
    /\ lastKey' = key
    /\ calls' = Dispatch(listeners, key)
    /\ UNCHANGED <<mounted, props, view, pending, installed, listeners, pureVars>>

Next ==
    \/ \E n \in ModalNames, es \in ErrorLists, cb \in Callbacks : Mount(n, es, cb)
    \/ \E n \in ModalNames, es \in ErrorLists, cb \in Callbacks : Rerender(n, es, cb)
    \/ Unmount
    \/ FlushPassiveEffects
    \/ \E k \in Keys : KeyDown(k)

Spec == Init /\ [][Next]_vars

----------------------------------------------------------------------------
(* Properties of the pure functions, checked under SpecPure *)

HexUpper == <<"0","1","2","3","4","5","6","7","8","9","A","B","C","D","E","F">>

\* A byte as two uppercase hexadecimal digits, a 16-bit half as four
ByteHex(b) == <<HexUpper[(b \div 16) + 1], HexUpper[(b % 16) + 1]>>
HalfHex(h) == ByteHex(h \div 256) \o ByteHex(h % 256)

IsUint32(x) == x.hi \in 0..65535 /\ x.lo \in 0..65535

\* AAAA_BBBB_CCCC_DDDD for two unsigned 32-bit numbers
ExpectedCode(attr, code) ==
    HalfHex(attr.hi) \o <<"_">> \o HalfHex(attr.lo) \o <<"_">> \o
    HalfHex(code.hi) \o <<"_">> \o HalfHex(code.lo)

Called(fn) == args.fn = fn /\ ret # <<>>

\* C1: for unsigned 32-bit attr and code, getFullHMSCode returns 19
\* characters, four groups of four uppercase hexadecimal digits separated by
\* single underscores: bytes 3,2 and 1,0 of attr, then bytes 3,2 and 1,0 of
\* code, each byte as two zero-padded digits.
C1_FullCodeFormat ==
    (Called("getFullHMSCode") /\ IsUint32(args.attr) /\ IsUint32(args.code)) =>
        /\ Len(ret[1]) = 19
        /\ \A i \in 1..19 :
              IF i \in {5, 10, 15} THEN ret[1][i] = "_"
              ELSE \E d \in 1..16 : ret[1][i] = HexUpper[d]
        /\ ret[1] = ExpectedCode(args.attr, args.code)

\* attr 0x0A80FF00 and code 0x00FF800A: four distinct bytes each
C1_Witness ==
    /\ Called("getFullHMSCode")
    /\ args.attr = Num(2688, 65280)
    /\ args.code = Num(255, 32778)
    /\ Str(ret[1]) = "0A80_FF00_00FF_800A"

\* C5: (0, 0) gives 0000_0000_0000_0000, (0xFFFFFFFF, 0xFFFFFFFF) gives
\* FFFF_FFFF_FFFF_FFFF, and whenever bit 31 of attr or code is set the output
\* has 19 characters and no minus sign.
C5_Boundaries ==
    Called("getFullHMSCode") =>
        /\ (args.attr = Zero /\ args.code = Zero) =>
              Str(ret[1]) = "0000_0000_0000_0000"
        /\ (args.attr = Num(65535, 65535) /\ args.code = Num(65535, 65535)) =>
              Str(ret[1]) = "FFFF_FFFF_FFFF_FFFF"
        /\ (args.attr.hi >= 32768 \/ args.code.hi >= 32768) =>
              /\ Len(ret[1]) = 19
              /\ \A i \in 1..Len(ret[1]) : ret[1][i] # "-"

C5_Witness ==
    /\ Called("getFullHMSCode")
    /\ args.attr = Num(65535, 65535)
    /\ args.code = Num(32768, 0)
    /\ Str(ret[1]) = "FFFF_FFFF_8000_0000"

\* The number a group of four uppercase hexadecimal digits denotes, -1 when
\* one of them is no such digit
GroupValue(g) ==
    IF \A i \in 1..4 : IndexOf(g[i], HexUpper) > 0
    THEN (IndexOf(g[1], HexUpper) - 1) * 4096 + (IndexOf(g[2], HexUpper) - 1) * 256
         + (IndexOf(g[3], HexUpper) - 1) * 16 + (IndexOf(g[4], HexUpper) - 1)
    ELSE -1

\* The pair of numbers a formatted code denotes, <<>> when it has not the format
Decode(s) ==
    IF Len(s) = 19 /\ s[5] = "_" /\ s[10] = "_" /\ s[15] = "_"
    THEN <<Num(GroupValue(SubSeq(s, 1, 4)), GroupValue(SubSeq(s, 6, 9))),
           Num(GroupValue(SubSeq(s, 11, 14)), GroupValue(SubSeq(s, 16, 19)))>>
    ELSE <<>>

\* C9: decoding the four groups of getFullHMSCode(attr, code) gives back
\* (attr, code), and two errors with different (attr, code) have different
\* keys and different wiki URLs.
C9_Injective ==
    /\ Called("getFullHMSCode") => Decode(ret[1]) = <<args.attr, args.code>>
    /\ Called("twoErrors") =>
          LET same == args.attr = args.attr2 /\ args.code = args.code2
          IN /\ (ret[1].key1 = ret[1].key2) => same
             /\ (ret[1].url1 = ret[1].url2) => same
             /\ Decode(ret[1].key1) = <<args.attr, args.code>>
             /\ Decode(ret[1].key2) = <<args.attr2, args.code2>>

\* Two errors whose attr differ in byte 1 only
C9_Witness ==
    /\ Called("twoErrors")
    /\ args.attr = Zero /\ args.attr2 = Num(0, 2560) /\ args.code = args.code2
    /\ ret[1].key1 # ret[1].key2
    /\ ret[1].url1 # ret[1].url2

\* The name has an "h" or "H" directly followed by "2"
HasH2(name) ==
    \E i \in 1..(Len(name) - 1) : name[i] \in {"h", "H"} /\ name[i + 1] = "2"

\* C3: getHMSWikiUrl is https://wiki.bambulab.com/en/<seg>/troubleshooting/
\* hmscode/<getFullHMSCode(attr, code)>, with <seg> h2 exactly when the
\* printer name contains h2 in either case, and x1 otherwise.
C3_WikiUrl ==
    Called("getHMSWikiUrl") =>
        ret[1] = "https://wiki.bambulab.com/en/"
                 \o (IF HasH2(args.printerName) THEN "h2" ELSE "x1")
                 \o "/troubleshooting/hmscode/"
                 \o Str(getFullHMSCode(args.attr, args.code))

C3_Witness ==
    /\ Called("getHMSWikiUrl")
    /\ args.printerName = <<"X", "H", "2">>
    /\ ret[1] = "https://wiki.bambulab.com/en/h2/troubleshooting/hmscode/0700_5500_0002_0001"

FatalInfo == [label |-> "Fatal", color |-> "text-red-500", bgColor |-> "bg-red-500/20", Icon |-> "AlertTriangle"]
SeriousInfo == [label |-> "Serious", color |-> "text-red-400", bgColor |-> "bg-red-500/15", Icon |-> "AlertTriangle"]
WarningInfo == [label |-> "Warning", color |-> "text-orange-400", bgColor |-> "bg-orange-500/20", Icon |-> "AlertCircle"]
InfoInfo == [label |-> "Info", color |-> "text-blue-400", bgColor |-> "bg-blue-500/20", Icon |-> "Info"]

\* C4: getSeverityInfo gives Fatal for 1, Serious for 2, Warning for 3, Info
\* for 4, four different tuples, and for every other integer the tuple of 4.
C4_SeverityTotal ==
    /\ Cardinality({FatalInfo, SeriousInfo, WarningInfo, InfoInfo}) = 4
    /\ Called("getSeverityInfo") =>
          ret[1] = CASE args.severity = 1 -> FatalInfo
                     [] args.severity = 2 -> SeriousInfo
                     [] args.severity = 3 -> WarningInfo
                     [] OTHER -> InfoInfo

C4_Witness ==
    /\ Called("getSeverityInfo")
    /\ args.severity = -1
    /\ ret[1].label = "Info"

\* C2: the description of a rendered error is the table entry under the key
\* getFullHMSCode(attr, codeNum) when the table has that very key, and the
\* fallback message for every other code.
C2_DescriptionLookup ==
    Called("RenderEntry") =>
        LET key == Str(getFullHMSCode(args.error.attr, CodeNum(args.error.code)))
        IN /\ key \in DOMAIN HMS_DESCRIPTIONS => ret[1].description = HMS_DESCRIPTIONS[key]
           /\ key \notin DOMAIN HMS_DESCRIPTIONS =>
                 ret[1].description = "Unknown error. Click the link below for details."

\* attr 0x0C000100 with code 0x000c8000 is in the table
C2_Witness ==
    /\ Called("RenderEntry")
    /\ args.error.attr = Num(3072, 256)
    /\ args.error.code = <<"0","x","0","0","0","c","8","0","0","0">>
    /\ ret[1].description = "Foreign object detected on print bed."

\* A formatted code with every underscore turned into a hyphen
RECURSIVE Hyphenated(_)
Hyphenated(s) ==
    IF s = <<>> THEN <<>>
    ELSE <<IF Head(s) = "_" THEN "-" ELSE Head(s)>> \o Hyphenated(Tail(s))

HexChars == {HexUpper[i] : i \in 1..16} \cup {"a", "b", "c", "d", "e", "f"}

\* What follows the first '0x' of the code string has, after leading
\* blanks, a sign and a 0x or 0X prefix, no hexadecimal digit or only zeros
ReadsNoValue(code) ==
    LET t == StripLeadingSpace(replaceFirst(code, <<"0", "x">>, <<>>))
        u == IF t # <<>> /\ Head(t) \in {"-", "+"} THEN Tail(t) ELSE t
        w == IF Len(u) >= 2 /\ u[1] = "0" /\ u[2] \in {"x", "X"}
             THEN SubSeq(u, 3, Len(u)) ELSE u
        k == IF \E i \in 1..Len(w) : w[i] \notin HexChars
             THEN (CHOOSE i \in 1..Len(w) :
                      w[i] \notin HexChars /\ \A j \in 1..(i - 1) : w[j] \in HexChars) - 1
             ELSE Len(w)
    IN \A i \in 1..k : w[i] = "0"

\* The code string is '0x' followed by at most eight hexadecimal digits
IsPrefixedHex(code) ==
    /\ Len(code) \in 2..10
    /\ code[1] = "0" /\ code[2] = "x"
    /\ \A i \in 3..Len(code) : code[i] \in HexChars

\* The number those digits denote
PrefixedHexValue(code) ==
    LET d == toUpperCase(SubSeq(code, 3, Len(code)))
        p == [i \in 1..8 |-> IF i <= 8 - Len(d) THEN "0" ELSE d[i - (8 - Len(d))]]
    IN Num(GroupValue(SubSeq(p, 1, 4)), GroupValue(SubSeq(p, 5, 8)))

\* C10: an error whose code string reads no value or zero is rendered as the
\* pair (attr, 0): last two groups 0000 0000, description and wiki URL of
\* (attr, 0); a code string '0x' plus up to eight hexadecimal digits is
\* rendered with the number the digits denote.
C10_CodeParsing ==
    Called("RenderEntry") =>
        /\ ReadsNoValue(args.error.code) =>
              /\ ret[1].displayCode =
                    "HMS_" \o Str(HalfHex(args.error.attr.hi)) \o "-"
                    \o Str(HalfHex(args.error.attr.lo)) \o "-0000-0000"
              /\ ret[1].description = Describe(getFullHMSCode(args.error.attr, Zero))
              /\ ret[1].href = getHMSWikiUrl(args.error.attr, Zero, args.printerName)
        /\ IsPrefixedHex(args.error.code) =>
              ret[1].displayCode =
                  "HMS_" \o Str(Hyphenated(ExpectedCode(args.error.attr,
                                                        PrefixedHexValue(args.error.code))))

C10_Witness ==
    /\ Called("RenderEntry")
    /\ args.error.attr = Num(65535, 65535)
    /\ args.error.code = <<"z", "z">>
    /\ ret[1].displayCode = "HMS_FFFF-FFFF-0000-0000"
    /\ ret[1].description = "Unknown error. Click the link below for details."

----------------------------------------------------------------------------
(* Properties of the mounted component, checked under Spec *)

ExpectedEntry(error, printerName) ==
    LET full == getFullHMSCode(error.attr, CodeNum(error.code))
    IN [label |-> getSeverityInfo(error.severity).label,
        displayCode |-> "HMS_" \o Str(Hyphenated(full)),
        description |-> Describe(full),
        href |-> getHMSWikiUrl(error.attr, CodeNum(error.code), printerName)]

ShownEntry(e) ==
    [label |-> e.label, displayCode |-> e.displayCode,
     description |-> e.description, href |-> e.href]

\* C7: the body shows the placeholder and no entry exactly when errors is
\* empty; otherwise one entry per error, in order, duplicates included, each
\* with the label, display code, description and link of its own error; a
\* render leaves the errors it was given as they are and calls no onClose.
C7_RenderedList ==
    /\ [](mounted =>
            /\ (view.placeholder = "No HMS errors") <=> (props.errors = <<>>)
            /\ (view.placeholder = "") <=> (props.errors # <<>>)
            /\ Len(view.entries) = Len(props.errors)
            /\ \A i \in 1..Len(props.errors) :
                  ShownEntry(view.entries[i]) =
                      ExpectedEntry(props.errors[i], props.printerName))
    /\ [][\A n \in ModalNames, es \in ErrorLists, cb \in Callbacks :
            (Mount(n, es, cb) \/ Rerender(n, es, cb)) =>
                (props'.errors = es /\ calls' = calls)]_vars

C7_Witness ==
    /\ mounted
    /\ Len(props.errors) = 2
    /\ props.errors[1].severity = 9 /\ props.errors[2].severity = 2
    /\ view.entries[1].displayCode = "HMS_FFFF-FFFF-0000-0000"
    /\ view.entries[2].displayCode = "HMS_0700-5500-0002-0001"
    /\ view.entries[2].label = "Serious"

\* C6 as stated: while the modal is mounted, a keydown of Escape calls the
\* current onClose exactly once and a keydown of any other key calls none.
C6_AsStated ==
    [][\A k \in Keys :
        (mounted /\ KeyDown(k)) =>
            calls' = IF k = "Escape" THEN <<props.onClose>> ELSE <<>>]_vars

\* C6: while the modal is mounted and the effects of its last render have
\* run, a keydown of Escape calls the current onClose exactly once; a keydown
\* of any other key never calls an onClose.
C6_EscapeCloses ==
    [][\A k \in Keys :
        KeyDown(k) =>
            /\ (k # "Escape") => calls' = <<>>
            /\ (k = "Escape" /\ mounted /\ pending = "none") =>
                  calls' = <<props.onClose>>]_vars

C6_Witness ==
    /\ mounted
    /\ pending = "none"
    /\ listeners = <<props.onClose>>
    /\ lastKey = "Escape"
    /\ calls = <<props.onClose>>

\* C8 as stated: at most one listener at any time, the registered listener
\* always calls the most recent onClose, and after unmount none remains.
C8_AsStated ==
    /\ Len(listeners) <= 1
    /\ mounted => \A i \in 1..Len(listeners) : listeners[i] = props.onClose
    /\ ~mounted => listeners = <<>>

\* C8: at most one listener is registered at any time; once the effects of
\* the last render have run it is the listener that calls the most recent
\* onClose, and once the cleanup of an unmount has run none remains.
C8_OneListener ==
    /\ Len(listeners) <= 1
    /\ listeners = IF installed = 0 THEN <<>> ELSE <<installed>>
    /\ (mounted /\ pending = "none") => listeners = <<props.onClose>>
    /\ (~mounted /\ pending = "none") => listeners = <<>>

\* The listener that called callback 1 has been replaced by the one of
\* callback 2
C8_Witness ==
    /\ mounted
    /\ pending = "none"
    /\ props.onClose = 2
    /\ listeners = <<2>>
    /\ calls = <<1>>

====
